---- MODULE Spec2Model ----
(***************************************************************************)
(* Market-data caching and concurrent refresh of the portfolio            *)
(* application: the in-process PriceCache (TTL), the durable price_cache  *)
(* table, the batch fetcher, the background refresh threads started by    *)
(* load_data / refresh_prices, and the ConnectionPool of database.py.     *)
(*                                                                         *)
(* Time is counted in whole minutes.  An optional value (Python None or a  *)
(* value) is a set with at most one element: {} is None, {v} is v.         *)
(***************************************************************************)
EXTENDS Integers, FiniteSets, Sequences, TLC

\* ------------------------------------------------------------------ bounds
Tickers == {"A", "B"}
Prices == {2}
MaxRuns == 4
RunsLeft == 2
MaxCallers == 2
MaxFallbacks == 2
\* ConnectionPool(db_name, pool_size): the size of the pool (Database passes 5)
pool_size == 2
MaxTicks == 1
MaxClock == 6

\* ------------------------------------------------------- program constants
TTL_MINUTES == 5
MAX_CACHE_AGE_MINUTES == 60
WATCHLIST_MAX_AGE_MINUTES == 999999
MAX_ATTEMPTS == 3
VALID_CURRENCIES == {"USD", "PLN"}
auto_refresh_enabled == TRUE

\* float('nan'): truthy, neither > 0 nor == 0; encoded as a negative number
NaN == -1
\* prices[ticker] = 0.0 marks a symbol whose fetch failed
FAILED == 0

Scopes == {"positions", "watchlist"}

\* time zones of the host: UTC, and UTC+2 (Europe/Warsaw in summer)
UtcOffsets == {0, 120}

\* rows of the positions / watchlist tables, per currency (fixed here)
positions_table == [c \in VALID_CURRENCIES |-> IF c = "USD" THEN {"A", "B"} ELSE {"B"}]
watchlist_table == [c \in VALID_CURRENCIES |-> IF c = "USD" THEN {"A"} ELSE {}]

\* no row of positions or watchlist deleted
NoneDropped == [positions |-> [c \in VALID_CURRENCIES |-> {}],
                watchlist |-> [c \in VALID_CURRENCIES |-> {}]]

\* threads calling the PriceCache
MaxCacheThreads == 2

CacheThreads == 1..MaxCacheThreads

\* get calls made between two clears
MaxGets == 2

\* PriceCache.__init__: hits = 0, misses = 0, the lock free (0), no call in
\* progress; gets counts the get calls completed since the last clear
NoStats == [hits |-> 0, misses |-> 0, gets |-> 0, lock |-> 0,
            thread |-> [th \in CacheThreads |-> [pc |-> "idle", tmp |-> 0, ret |-> {}]]]

\* largest max_attempts tried
MaxRetryAttempts == 3

\* delay and backoff tried
Delays == {1, 2}

Backoffs == {1, 2, 3}

\* the wrapper not called: calls is the list of the outcomes of func, waits the
\* list of the time.sleep arguments, last_exception and raised the number of
\* the call that raised the exception (0: none)
NoRetry == [pc |-> "idle", max_attempts |-> 1, delay |-> 1, backoff |-> 1, attempt |-> 0,
            current_delay |-> 0, last_exception |-> 0, calls |-> <<>>, waits |-> <<>>,
            raised |-> 0]

VARIABLES
    now,                \* wall clock, minutes
    ticks,              \* number of clock advances so far
    utc_offset,         \* minutes the host's local time is ahead of UTC
    current_currency,   \* MainWindow.current_currency
    cache,              \* PriceCache._cache: ticker -> option [price, timestamp]
    price_cache,        \* durable table price_cache: ticker -> option row
    in_progress,        \* positions_refresh_in_progress / watchlist_refresh_in_progress
    runs,               \* background refresh threads, in order of creation
    nruns,              \* number of refresh threads created so far
    ui,                 \* the interactive thread: idle, or blocked in yf.download
    dropped,            \* the rows of positions / watchlist deleted so far, per currency
    stats,              \* PriceCache.hits, .misses and ._lock, and the threads calling it
    retry,              \* one call of a function wrapped by retry_on_failure
    got,                \* the last lookup made directly in one of the two caches
    rates,              \* exchange rates: the fetch_rates_bg thread, current_usd_rate,
                        \* and the thread that last wrote the rate labels
    pool,               \* ConnectionPool.pool: the Queue of idle connections, FIFO
    created,            \* number of connections created so far (they are numbered)
    closed,             \* the connections on which close() was called
    callers,            \* per thread using the database: its `with get_connection()`
    shut                \* close_all: "open" before it, "closing" in its loop, "closed" after

\* SELECT ... FROM positions WHERE currency = ?: the tickers of the rows left
Positions(cur) == positions_table[cur] \ dropped.positions[cur]

\* SELECT ... FROM watchlist WHERE currency = ?: the tickers of the rows left
Watchlist(cur) == watchlist_table[cur] \ dropped.watchlist[cur]

refreshVars == <<now, ticks, utc_offset, current_currency, cache, price_cache, in_progress,
                 runs, nruns, ui, rates, got, dropped, stats, retry>>

poolVars == <<pool, created, closed, callers, shut>>

vars == <<refreshVars, poolVars>>

Callers == 1..MaxCallers

\* a thread outside any `with self.pool.get_connection()` block; conn / via are
\* the connection of its with-block and how it was obtained, inner / inner_via
\* those of a with-block entered by a method it calls from inside the first
NoConn == [pc |-> "idle", conn |-> 0, via |-> "none", inner |-> 0, inner_via |-> "none"]

\* ConnectionPool._init_pool: pool_size connections are created and queued
PoolInit ==
    /\ pool = [i \in 1..pool_size |-> i]
    /\ created = pool_size
    /\ closed = {}
    /\ callers = [c \in Callers |-> NoConn]
    /\ shut = "open"

Runs == 1..MaxRuns

\* currency: the view whose rows the thread was given (p.currency of its items)
NoRun == [pc |-> "unborn", scope |-> "positions", currency |-> "USD", items |-> <<>>,
          to_refresh |-> {}, uncached |-> {}, fresh |-> <<>>,
          attempts |-> 0, raised |-> FALSE, notified |-> 0]

\* ----------------------------------------------------------- PriceCache
\* PriceCache.get with <= in place of <: an entry is still valid at age ttl
PriceCacheGetInclusive(c, t, clock) ==
    {e.price : e \in {x \in c[t] : clock - x.timestamp <= TTL_MINUTES}}

\* PriceCache.get: the price if an entry exists and now - timestamp < ttl
PriceCacheGet(c, t, clock) ==
    {e.price : e \in {x \in c[t] : clock - x.timestamp < TTL_MINUTES}}

\* PriceCache.set
PriceCacheSet(c, t, p, clock) ==
    [c EXCEPT ![t] = {[price |-> p, timestamp |-> clock]}]

\* PriceCache.clear
PriceCacheClear == [t \in Tickers |-> {}]

\* --------------------------------------------------------- durable cache
\* cache_age_minutes of get_positions_with_cache: NULL without a row
CacheAge(db, t, clock) == {clock - r.last_update : r \in db[t]}

\* get_cached_price(ticker, max_age_minutes): row only if last_update > now - max_age
GetCachedPrice(db, t, max_age, clock) ==
    {r \in db[t] : r.last_update > clock - max_age}

\* update_price_cache_batch stamping the rows a minute in the past
UpdatePriceCacheBatchStale(db, updates, clock) ==
    [t \in Tickers |->
        IF \E u \in updates : u.ticker = t
        THEN {[last_price |-> u.price, last_update |-> clock - 1, currency |-> u.currency] :
                 u \in {x \in updates : x.ticker = t}}
        ELSE db[t]]

\* update_price_cache_batch: INSERT OR REPLACE, last_update = now
UpdatePriceCacheBatch(db, updates, clock) ==
    [t \in Tickers |->
        IF \E u \in updates : u.ticker = t
        THEN {[last_price |-> u.price, last_update |-> clock, currency |-> u.currency] :
                 u \in {x \in updates : x.ticker = t}}
        ELSE db[t]]

\* get_positions_with_cache(currency): ticker -> cache_age_minutes
PositionsWithCache(db, cur, clock) ==
    [t \in Positions(cur) |-> CacheAge(db, t, clock)]

\* get_positions_with_cache(currency) as displayed: ticker -> cached_price and
\* cache_age_minutes, both NULL (no element) when the LEFT JOIN finds no row
DisplayRead(db, cur, clock) ==
    [t \in Positions(cur) |->
        {[cached_price |-> r.last_price, cache_age_minutes |-> clock - r.last_update] :
            r \in db[t]}]

\* load_watchlist_hybrid: ticker -> age_minutes of the row get_cached_price
\* returns; last_update is datetime('now') of SQLite (UTC), the age is taken
\* from datetime.now() (local time, local = clock + offset)
WatchlistWithCache(db, cur, clock, offset) ==
    [t \in Watchlist(cur) |->
        {(clock + offset) - r.last_update :
            r \in GetCachedPrice(db, t, WATCHLIST_MAX_AGE_MINUTES, clock)}]

\* cache_age is None or cache_age > 60
IsStale(age) == age = {} \/ \E a \in age : a > MAX_CACHE_AGE_MINUTES

\* ---------------------------------------------------------- batch fetcher
\* what yf.download returns for one ticker of the grouped request
Outcomes ==
    {[kind |-> "ok", price |-> p] : p \in Prices}
        \cup {[kind |-> k, price |-> FAILED] : k \in {"nan", "missing"}}

\* the cache pass skipped: every requested ticker goes into the grouped request
UncachedAll(c, tickers, clock) == tickers

\* fetch_multiple_prices_batch, cache pass: tickers without a valid PriceCache entry
Uncached(c, tickers, clock) == {t \in tickers : PriceCacheGet(c, t, clock) = {}}

\* fetch_multiple_prices_batch, cache pass: prices[ticker] = cached_price
CachedPrices(c, tickers, clock) ==
    [t \in tickers \ Uncached(c, tickers, clock) |->
        CHOOSE p \in PriceCacheGet(c, t, clock) : TRUE]

\* branch len(uncached_tickers) == 1: float(data['Close'].iloc[-1]) accepts NaN
SingleTickerPrice(o) ==
    IF o.kind = "ok" THEN o.price ELSE IF o.kind = "nan" THEN NaN ELSE FAILED

\* branch for several tickers: pd.isna(last_price) marks the ticker failed
MultiTickerPrice(o) ==
    IF o.kind = "ok" THEN o.price ELSE FAILED

\* prices[ticker] for every ticker of the grouped request, from its response
ParseResponse(uncached, resp) ==
    [t \in uncached |->
        IF Cardinality(uncached) = 1 THEN SingleTickerPrice(resp[t])
        ELSE MultiTickerPrice(resp[t])]

\* what the parse can make of the responses to one grouped request
ParsedResponses(uncached) ==
    {ParseResponse(uncached, resp) : resp \in [uncached -> Outcomes]}

\* except Exception around yf.download: every ticker of the request gets 0.0
AllFailed(uncached) == [t \in uncached |-> FAILED]

\* self.price_cache.set(ticker, price) for every ticker the parse did not fail
CacheAfterFetch(c, parsed, clock) ==
    [t \in Tickers |->
        IF t \in DOMAIN parsed /\ parsed[t] # FAILED
        THEN {[price |-> parsed[t], timestamp |-> clock]}
        ELSE c[t]]

\* two dicts with disjoint keys, merged
Merge(f, g) ==
    [t \in DOMAIN f \cup DOMAIN g |-> IF t \in DOMAIN f THEN f[t] ELSE g[t]]

\* ------------------------------------------------------ refresh coordinator
\* needs_refresh of load_positions_hybrid / load_watchlist_hybrid
NeedsRefresh(items, force) ==
    force \/ \E t \in DOMAIN items : IsStale(items[t])

\* the guard around start_async_*_refresh
WantsRun(scope, items, force, flags) ==
    /\ DOMAIN items # {}
    /\ NeedsRefresh(items, force)
    /\ auto_refresh_enabled
    /\ ~flags[scope]

\* start_async_price_refresh / start_async_watchlist_refresh: the flag is set,
\* then the thread is created; started = FALSE is Thread.start() raising
StartAsync(scope, cur, items, st, started) ==
    [f |-> [st.f EXCEPT ![scope] = TRUE],
     r |-> IF started /\ st.n < MaxRuns
           THEN [st.r EXCEPT ![st.n + 1] =
                    [NoRun EXCEPT !.pc = "started", !.scope = scope, !.currency = cur,
                                  !.items = items]]
           ELSE st.r,
     n |-> IF started THEN st.n + 1 ELSE st.n]

\* load_data(force_refresh): load_positions_hybrid, then load_watchlist_hybrid
LoadDataResult(force, cur, startedP, startedW) ==
    LET s0 == [f |-> in_progress, r |-> runs, n |-> nruns]
        itemsP == PositionsWithCache(price_cache, cur, now)
        s1 == IF WantsRun("positions", itemsP, force, s0.f)
              THEN StartAsync("positions", cur, itemsP, s0, startedP) ELSE s0
        itemsW == WatchlistWithCache(price_cache, cur, now, utc_offset)
        s2 == IF WantsRun("watchlist", itemsW, force, s1.f)
              THEN StartAsync("watchlist", cur, itemsW, s1, startedW) ELSE s1
    IN s2

\* starts: the outcomes Thread.start() can have (TRUE: the thread runs)
ApplyLoadData(force, cur, starts) ==
    \E s \in {LoadDataResult(force, cur, startedP, startedW) : startedP, startedW \in starts} :
        /\ s.n <= MaxRuns
        /\ in_progress' = s.f
        /\ runs' = s.r
        /\ nruns' = s.n

\* tickers_to_refresh of _refresh_*_background
TickersToRefresh(items) == {t \in DOMAIN items : IsStale(items[t])}

\* cache_updates without the price > 0 test: failed tickers are written too
CacheUpdatesUnfiltered(to_refresh, fresh, cur) ==
    {[ticker |-> t, price |-> fresh[t], currency |-> cur] :
        t \in {x \in to_refresh : x \in DOMAIN fresh}}

\* cache_updates of _refresh_*_background
CacheUpdates(to_refresh, fresh, cur) ==
    {[ticker |-> t, price |-> fresh[t], currency |-> cur] :
        t \in {x \in to_refresh : x \in DOMAIN fresh /\ fresh[x] # FAILED /\ fresh[x] > 0}}

\* ------------------------------------------------------------------ Init
\* no lookup made yet
NoGot == [op |-> "none", ticker |-> "A", at |-> 0, max_age |-> 0, result |-> {}]

\* MainWindow.__init__: current_usd_rate = None (origin "none"),
\* exchange_rates_last_update = None, no fetch_rates_bg thread yet (thread: the
\* one of initial_load, thread2: the one of load_data), load_data not inside
\* its PLN branch (ui), the rate labels as built
NoRates == [thread |-> "unborn", usd |-> {}, label_by |-> "none", origin |-> "none",
            last_update |-> {}, ui |-> "idle", thread2 |-> "unborn"]

\* price_cache at start: no row (new database), or a row an earlier session
\* wrote just now or more than an hour ago
InitialRows ==
    {{}} \cup {{[last_price |-> 1, last_update |-> u, currency |-> "USD"]} :
                  u \in {0, 0 - (MAX_CACHE_AGE_MINUTES + 1)}}

\* MainWindow.__init__: empty PriceCache, USD view, no refresh in progress
Init ==
    /\ now = 0
    /\ ticks = 0
    /\ utc_offset \in UtcOffsets
    /\ current_currency = "USD"
    /\ cache = PriceCacheClear
    /\ \E row \in InitialRows : price_cache = [t \in Tickers |-> row]
    /\ in_progress = [s \in Scopes |-> FALSE]
    /\ runs = [r \in Runs |-> NoRun]
    /\ nruns = 0
    /\ ui = [pc |-> "idle", uncached |-> {}]
    /\ rates = NoRates
    /\ got = NoGot
    /\ dropped = NoneDropped
    /\ stats = NoStats
    /\ retry = NoRetry
    /\ PoolInit

\* ------------------------------------------------------------- the clock
TickSteps == {TTL_MINUTES}

Tick ==
    /\ ticks < MaxTicks
    /\ \E d \in TickSteps : now' = now + d
    /\ ticks' = ticks + 1
    /\ UNCHANGED <<utc_offset, dropped, stats, retry, got, rates, current_currency, cache, price_cache, in_progress, runs, nruns, ui, poolVars>>

\* ------------------------------------------------- the interactive thread
\* load_data() after an edit of the positions or of the watch-list, initial_load
LoadDataOp(starts) ==
    /\ ui.pc = "idle"
    /\ ApplyLoadData(FALSE, current_currency, starts)
    /\ UNCHANGED <<now, ticks, utc_offset, dropped, stats, retry, got, rates, current_currency, cache, price_cache, ui, poolVars>>

LoadData == LoadDataOp({TRUE})

\* on_currency_changed(index): switch the view, then load_data()
OnCurrencyChanged ==
    /\ ui.pc = "idle"
    /\ \E c \in VALID_CURRENCIES \ {current_currency} :
        /\ current_currency' = c
        /\ ApplyLoadData(FALSE, c, {TRUE})
    /\ UNCHANGED <<now, ticks, utc_offset, dropped, stats, retry, got, rates, cache, price_cache, ui, poolVars>>

\* all_tickers of refresh_prices: positions and watch-list of both currencies
AllTickers ==
    UNION {Positions(c) \cup Watchlist(c) : c \in VALID_CURRENCIES}

\* refresh_prices (button or hourly timer) up to the grouped request of
\* fetch_multiple_prices_batch_with_progress: the PriceCache is cleared and the
\* interactive thread blocks in yf.download
RefreshPricesBegin ==
    /\ ui.pc = "idle"
    /\ AllTickers # {}
    /\ cache' = PriceCacheClear
    /\ ui' = [pc |-> "download", uncached |-> Uncached(PriceCacheClear, AllTickers, now)]
    /\ UNCHANGED <<now, ticks, utc_offset, dropped, stats, retry, got, rates, current_currency, price_cache, in_progress, runs, nruns, poolVars>>

\* refresh_prices from the response of yf.download on: the prices are parsed
\* into the PriceCache, then load_data(force_refresh=True)
RefreshPricesEndOp(starts) ==
    /\ ui.pc = "download"
    /\ \/ \E parsed \in ParsedResponses(ui.uncached) :
            cache' = CacheAfterFetch(cache, parsed, now)
       \/ cache' = CacheAfterFetch(cache, AllFailed(ui.uncached), now)
    /\ ui' = [pc |-> "idle", uncached |-> {}]
    /\ ApplyLoadData(TRUE, current_currency, starts)
    /\ UNCHANGED <<now, ticks, utc_offset, dropped, stats, retry, got, rates, current_currency, price_cache, poolVars>>

RefreshPricesEnd == RefreshPricesEndOp({TRUE})

\* --------------------------------------------------- the refresh threads
\* _refresh_*_background up to the grouped request: tickers_to_refresh is built;
\* when it is empty the flag is reset and the thread returns through finally,
\* otherwise fetch_multiple_prices_batch reads the PriceCache and calls yf.download
BgStart(r) ==
    /\ runs[r].pc = "started"
    /\ LET to_refresh == TickersToRefresh(runs[r].items)
           uncached == Uncached(cache, to_refresh, now)
       IN IF to_refresh = {}
          THEN /\ in_progress' = [in_progress EXCEPT ![runs[r].scope] = FALSE]
               /\ runs' = [runs EXCEPT ![r] = [@ EXCEPT !.pc = "returning", !.items = <<>>]]
          ELSE /\ runs' = [runs EXCEPT ![r] =
                    [@ EXCEPT !.pc = IF uncached = {} THEN "fetched" ELSE "download",
                              !.items = <<>>,
                              !.to_refresh = to_refresh,
                              !.uncached = uncached,
                              !.attempts = IF uncached = {} THEN 0 ELSE 1,
                              !.fresh = CachedPrices(cache, to_refresh, now)]]
               /\ UNCHANGED in_progress
    /\ UNCHANGED <<now, ticks, utc_offset, dropped, stats, retry, got, rates, current_currency, cache, price_cache, nruns, ui, poolVars>>

\* yf.download returns to fetch_multiple_prices_batch, or raises
BgDownload(r) ==
    /\ runs[r].pc = "download"
    /\ \/ \E parsed \in ParsedResponses(runs[r].uncached) :
            /\ cache' = CacheAfterFetch(cache, parsed, now)
            /\ runs' = [runs EXCEPT ![r] =
                    [@ EXCEPT !.pc = "fetched", !.fresh = Merge(@, parsed)]]
       \/ /\ cache' = cache
          /\ runs' = [runs EXCEPT ![r] =
                    [@ EXCEPT !.pc = "fetched", !.raised = TRUE,
                              !.fresh = Merge(@, AllFailed(runs[r].uncached))]]
    /\ UNCHANGED <<now, ticks, utc_offset, dropped, stats, retry, got, rates, current_currency, price_cache, in_progress, nruns, ui, poolVars>>

\* cache_updates, self.db.update_price_cache_batch(cache_updates) and
\* schedule_ui_refresh (QTimer.singleShot(0, ...)); the second disjunct is the
\* write raising, which skips the notification
BgWrite(r) ==
    /\ runs[r].pc = "fetched"
    /\ LET updates == CacheUpdates(runs[r].to_refresh, runs[r].fresh, current_currency)
           done == [runs[r] EXCEPT !.pc = "finally", !.to_refresh = {}, !.uncached = {},
                                   !.fresh = <<>>, !.attempts = 0, !.raised = FALSE]
       IN \/ /\ price_cache' = UpdatePriceCacheBatch(price_cache, updates, now)
             /\ runs' = [runs EXCEPT ![r] = [done EXCEPT !.notified = @ + 1]]
          \/ /\ updates # {}
             /\ UNCHANGED price_cache
             /\ runs' = [runs EXCEPT ![r] = done]
    /\ UNCHANGED <<now, ticks, utc_offset, dropped, stats, retry, got, rates, current_currency, cache, in_progress, nruns, ui, poolVars>>

\* finally: the in-progress flag of the scope is reset, the thread ends
BgFinally(r) ==
    /\ runs[r].pc \in {"finally", "returning"}
    /\ in_progress' = [in_progress EXCEPT ![runs[r].scope] = FALSE]
    /\ runs' = [runs EXCEPT ![r] = [NoRun EXCEPT !.pc = "done"]]
    /\ UNCHANGED <<now, ticks, utc_offset, dropped, stats, retry, got, rates, current_currency, cache, price_cache, nruns, ui, poolVars>>

Next ==
    \/ Tick
    \/ LoadData
    \/ RefreshPricesBegin
    \/ RefreshPricesEnd
    \/ \E r \in Runs : BgStart(r)
    \/ \E r \in Runs : BgDownload(r)
    \/ \E r \in Runs : BgWrite(r)
    \/ \E r \in Runs : BgFinally(r)

Spec == Init /\ [][Next]_vars

\* the same program when Thread.start() can raise in start_async_*_refresh
LoadDataThreadError == LoadDataOp(BOOLEAN)

RefreshPricesEndThreadError == RefreshPricesEndOp(BOOLEAN)

NextThreadError == Next \/ LoadDataThreadError \/ RefreshPricesEndThreadError

SpecThreadError == Init /\ [][NextThreadError]_vars

\* the program after earlier refresh threads have ended without a successful
\* fetch: RunsLeft further threads can be created
InitLater ==
    /\ now = 0
    /\ ticks = 0
    /\ utc_offset \in UtcOffsets
    /\ current_currency = "USD"
    /\ cache = PriceCacheClear
    /\ \E row \in InitialRows : price_cache = [t \in Tickers |-> row]
    /\ in_progress = [s \in Scopes |-> FALSE]
    /\ nruns = MaxRuns - RunsLeft
    /\ runs = [r \in Runs |-> IF r <= MaxRuns - RunsLeft
                                THEN [NoRun EXCEPT !.pc = "done"] ELSE NoRun]
    /\ ui = [pc |-> "idle", uncached |-> {}]
    /\ rates = NoRates
    /\ got = NoGot
    /\ dropped = NoneDropped
    /\ stats = NoStats
    /\ retry = NoRetry
    /\ PoolInit

SpecLater == InitLater /\ [][Next]_vars

\* ------------------------------------------------------- exchange rates
\* what fetch_exchange_rate('USDPLN=X') can return: None, or the rate
UsdRates == {{}, {4}}

\* load_data: self.current_usd_rate = 4.0
DEFAULT_USD_RATE == 4

\* load_data: the rates are refetched when older than 3600 s
RATES_MAX_AGE_MINUTES == 60

\* where the value of current_usd_rate fetch_exchange_rate returned comes from
Origin(u) == IF u = {} THEN "none" ELSE "provider"

\* initial_load: load_data(), then the thread fetch_rates_bg is started
InitialLoad ==
    /\ ui.pc = "idle"
    /\ rates.thread = "unborn"
    /\ ApplyLoadData(FALSE, current_currency, {TRUE})
    /\ rates' = [rates EXCEPT !.thread = "running"]
    /\ UNCHANGED <<now, ticks, utc_offset, dropped, stats, retry, got, current_currency, cache, price_cache, ui, poolVars>>

\* fetch_rates_bg on its thread: fetch_and_cache_exchange_rates stores the rates
\* and calls update_exchange_rates_display(), which sets the text of the labels
FetchRatesBg ==
    /\ rates.thread = "running"
    /\ \E u \in UsdRates :
          rates' = [rates EXCEPT !.thread = "done", !.usd = u, !.label_by = "background",
                                 !.origin = Origin(u), !.last_update = {now}]
    /\ UNCHANGED <<now, ticks, utc_offset, dropped, stats, retry, got, current_currency, cache, price_cache,
                   in_progress, runs, nruns, ui, poolVars>>

\* the two fetch_rates_bg threads
RateThreads == {"thread", "thread2"}

\* fetch_and_cache_exchange_rates on a fetch_rates_bg thread, first statement:
\* self.current_usd_rate = self.fetch_exchange_rate('USDPLN=X')
RatesBgFetched(th) ==
    /\ rates[th] = "running"
    /\ \E u \in UsdRates :
          rates' = [rates EXCEPT ![th] = "assigned", !.usd = u, !.origin = Origin(u)]
    /\ UNCHANGED <<now, ticks, utc_offset, dropped, stats, retry, got, current_currency, cache, price_cache,
                   in_progress, runs, nruns, ui, poolVars>>

\* the same call after the other four fetches:
\* self.exchange_rates_last_update = datetime.now(), update_exchange_rates_display()
RatesBgStamped(th) ==
    /\ rates[th] = "assigned"
    /\ rates' = [rates EXCEPT ![th] = "done", !.last_update = {now}, !.label_by = "background"]
    /\ UNCHANGED <<now, ticks, utc_offset, dropped, stats, retry, got, current_currency, cache, price_cache,
                   in_progress, runs, nruns, ui, poolVars>>

\* exchange_rates_last_update is None or more than 3600 s ago
RatesExpired == \A u \in rates.last_update : now - u > RATES_MAX_AGE_MINUTES

\* load_data with the PLN view (called by on_currency_changed, or after an edit),
\* up to the test of current_usd_rate: with rates that are not expired the
\* labels are updated and the lists loaded; otherwise the thread is about to
\* set the defaults ("checked") or calls fetch_and_cache_exchange_rates itself
PlnLoadBegin ==
    /\ ui.pc = "idle" /\ rates.ui = "idle"
    /\ rates.thread # "unborn"
    /\ current_currency' = "PLN"
    /\ IF RatesExpired
       THEN /\ rates.usd = {} => rates.thread2 = "unborn"
            /\ rates' = [rates EXCEPT !.ui = IF rates.usd = {} THEN "checked" ELSE "running"]
            /\ UNCHANGED <<in_progress, runs, nruns>>
       ELSE /\ rates' = [rates EXCEPT !.label_by = "ui"]
            /\ ApplyLoadData(FALSE, "PLN", {TRUE})
    /\ UNCHANGED <<now, ticks, utc_offset, dropped, stats, retry, got, cache, price_cache, ui, poolVars>>

\* load_data after `if self.current_usd_rate is None`: the defaults are
\* assigned, fetch_rates_bg is started, the labels are updated, the lists loaded
PlnLoadDefault ==
    /\ rates.ui = "checked"
    /\ rates' = [rates EXCEPT !.ui = "idle", !.usd = {DEFAULT_USD_RATE}, !.origin = "default",
                              !.thread2 = "running", !.label_by = "ui"]
    /\ ApplyLoadData(FALSE, "PLN", {TRUE})
    /\ UNCHANGED <<now, ticks, utc_offset, dropped, stats, retry, got, current_currency, cache, price_cache,
                   ui, poolVars>>

\* load_data calling fetch_and_cache_exchange_rates itself, first statement
PlnLoadFetched ==
    /\ rates.ui = "running"
    /\ \E u \in UsdRates :
          rates' = [rates EXCEPT !.ui = "assigned", !.usd = u, !.origin = Origin(u)]
    /\ UNCHANGED <<now, ticks, utc_offset, dropped, stats, retry, got, current_currency, cache, price_cache,
                   in_progress, runs, nruns, ui, poolVars>>

\* the same call from the timestamp on, and the rest of load_data
PlnLoadStamped ==
    /\ rates.ui = "assigned"
    /\ rates' = [rates EXCEPT !.ui = "idle", !.last_update = {now}, !.label_by = "ui"]
    /\ ApplyLoadData(FALSE, "PLN", {TRUE})
    /\ UNCHANGED <<now, ticks, utc_offset, dropped, stats, retry, got, current_currency, cache, price_cache,
                   ui, poolVars>>

\* the program from its start with the PLN view opened: the interactive thread
\* and the fetch_rates_bg threads interleave statement by statement (the
\* refresh threads that load_data starts take no step here)
NextRates ==
    \/ InitialLoad
    \/ Tick
    \/ \E th \in RateThreads : RatesBgFetched(th)
    \/ \E th \in RateThreads : RatesBgStamped(th)
    \/ PlnLoadBegin
    \/ PlnLoadDefault
    \/ PlnLoadFetched
    \/ PlnLoadStamped

SpecRates == Init /\ [][NextRates]_vars

\* the program from its start: initial_load, the threads it starts, the clock
NextStart ==
    \/ InitialLoad
    \/ FetchRatesBg
    \/ Tick
    \/ \E r \in Runs : BgStart(r)
    \/ \E r \in Runs : BgDownload(r)
    \/ \E r \in Runs : BgWrite(r)
    \/ \E r \in Runs : BgFinally(r)

SpecStart == Init /\ [][NextStart]_vars

\* ------------------------------------------- the two caches on their own
\* one minute passes
ClockMinute ==
    /\ now < MaxClock
    /\ now' = now + 1
    /\ UNCHANGED <<ticks, utc_offset, dropped, stats, retry, got, rates, current_currency, cache, price_cache,
                   in_progress, runs, nruns, ui, poolVars>>

\* self.price_cache.set(ticker, price)
TtlSet ==
    /\ \E t \in Tickers, p \in Prices : cache' = PriceCacheSet(cache, t, p, now)
    /\ UNCHANGED <<now, ticks, utc_offset, dropped, stats, retry, got, rates, current_currency, price_cache,
                   in_progress, runs, nruns, ui, poolVars>>

\* self.price_cache.get(ticker)
TtlGet ==
    /\ \E t \in Tickers :
          got' = [op |-> "cache_get", ticker |-> t, at |-> now, max_age |-> 0,
                  result |-> PriceCacheGet(cache, t, now)]
    /\ UNCHANGED <<now, ticks, utc_offset, dropped, stats, retry, rates, current_currency, cache, price_cache,
                   in_progress, runs, nruns, ui, poolVars>>

NextTtl == ClockMinute \/ TtlSet \/ TtlGet

SpecTtl == Init /\ [][NextTtl]_vars

\* ------------------------------------------- PriceCache under threads
\* without `with self._lock`: the body runs whoever holds the lock
LockIgnored(lock) == TRUE

\* with self._lock: the body is entered only when no thread holds the lock
LockFree(lock) == lock = 0

\* get calls started and not finished
PendingGets == Cardinality({th \in CacheThreads : stats.thread[th].pc \in {"get", "store"}})

\* a thread calls price_cache.get, .set or .clear
CacheCall(th) ==
    /\ stats.thread[th].pc = "idle"
    /\ \E op \in {"get", "set", "clear"} :
          /\ op = "get" => stats.gets + PendingGets < MaxGets
          /\ stats' = [stats EXCEPT !.thread[th] = [pc |-> op, tmp |-> 0, ret |-> {}]]
    /\ UNCHANGED <<now, ticks, utc_offset, dropped, retry, got, rates, current_currency, cache,
                   price_cache, in_progress, runs, nruns, ui, poolVars>>

\* PriceCache.get: the lock is taken, the entry is tested, and self.hits (or
\* self.misses) is loaded for `+= 1`
CacheGetLoad(th) ==
    /\ stats.thread[th].pc = "get"
    /\ LockFree(stats.lock)
    /\ \E t \in Tickers :
          LET ret == PriceCacheGet(cache, t, now) IN
          stats' = [stats EXCEPT !.lock = th,
                        !.thread[th] = [pc |-> "store", ret |-> ret,
                                        tmp |-> IF ret # {} THEN stats.hits ELSE stats.misses]]
    /\ UNCHANGED <<now, ticks, utc_offset, dropped, retry, got, rates, current_currency, cache,
                   price_cache, in_progress, runs, nruns, ui, poolVars>>

\* PriceCache.get: the incremented counter is stored, the value is returned
\* and the lock released
CacheGetStore(th) ==
    /\ stats.thread[th].pc = "store"
    /\ LET me == stats.thread[th] IN
       stats' = [stats EXCEPT !.hits = IF me.ret # {} THEN me.tmp + 1 ELSE @,
                              !.misses = IF me.ret = {} THEN me.tmp + 1 ELSE @,
                              !.gets = @ + 1,
                              !.lock = 0,
                              !.thread[th] = [pc |-> "idle", tmp |-> 0, ret |-> me.ret]]
    /\ UNCHANGED <<now, ticks, utc_offset, dropped, retry, got, rates, current_currency, cache,
                   price_cache, in_progress, runs, nruns, ui, poolVars>>

\* PriceCache.set, under the lock
CacheSet(th) ==
    /\ stats.thread[th].pc = "set"
    /\ LockFree(stats.lock)
    /\ \E t \in Tickers, p \in Prices : cache' = PriceCacheSet(cache, t, p, now)
    /\ stats' = [stats EXCEPT !.thread[th] = [pc |-> "idle", tmp |-> 0, ret |-> {}]]
    /\ UNCHANGED <<now, ticks, utc_offset, dropped, retry, got, rates, current_currency,
                   price_cache, in_progress, runs, nruns, ui, poolVars>>

\* PriceCache.clear, under the lock
CacheClear(th) ==
    /\ stats.thread[th].pc = "clear"
    /\ LockFree(stats.lock)
    /\ cache' = PriceCacheClear
    /\ stats' = [stats EXCEPT !.hits = 0, !.misses = 0, !.gets = 0,
                              !.thread[th] = [pc |-> "idle", tmp |-> 0, ret |-> {}]]
    /\ UNCHANGED <<now, ticks, utc_offset, dropped, retry, got, rates, current_currency,
                   price_cache, in_progress, runs, nruns, ui, poolVars>>

NextStats ==
    \/ Tick
    \/ \E th \in CacheThreads : CacheCall(th)
    \/ \E th \in CacheThreads : CacheGetLoad(th)
    \/ \E th \in CacheThreads : CacheGetStore(th)
    \/ \E th \in CacheThreads : CacheSet(th)
    \/ \E th \in CacheThreads : CacheClear(th)

SpecStats == Init /\ [][NextStats]_vars

\* ---------------------------------------------------- retry_on_failure
\* the wrapper sleeping after every failed attempt, the last one included
SleepsAfterEvery(attempt, max_attempts) == TRUE

\* wrapper: if attempt < max_attempts - 1
SleepsAfter(attempt, max_attempts) == attempt < max_attempts - 1

\* the decorated function is called: current_delay = delay, last_exception = None
RetryEnter ==
    /\ retry.pc = "idle"
    /\ \E n \in 1..MaxRetryAttempts, d \in Delays, b \in Backoffs :
          retry' = [NoRetry EXCEPT !.pc = "loop", !.max_attempts = n, !.delay = d,
                                   !.backoff = b, !.current_delay = d]
    /\ UNCHANGED <<now, ticks, utc_offset, dropped, stats, got, rates, current_currency, cache,
                   price_cache, in_progress, runs, nruns, ui, poolVars>>

\* one turn of `for attempt in range(max_attempts)` up to time.sleep: func
\* returns, raises an exception of `exceptions`, or raises another one
RetryAttempt ==
    /\ retry.pc = "loop"
    /\ retry.attempt < retry.max_attempts
    /\ \E o \in {"return", "caught", "other"} :
          LET called == [retry EXCEPT !.calls = Append(@, o)] IN
          retry' = IF o = "return" THEN [called EXCEPT !.pc = "returned"]
                   ELSE IF o = "other"
                   THEN [called EXCEPT !.pc = "propagated", !.raised = Len(called.calls)]
                   ELSE IF SleepsAfter(retry.attempt, retry.max_attempts)
                   THEN [called EXCEPT !.pc = "sleep", !.last_exception = Len(called.calls)]
                   ELSE [called EXCEPT !.attempt = @ + 1, !.last_exception = Len(called.calls)]
    /\ UNCHANGED <<now, ticks, utc_offset, dropped, stats, got, rates, current_currency, cache,
                   price_cache, in_progress, runs, nruns, ui, poolVars>>

\* time.sleep(current_delay); current_delay *= backoff; next turn of the loop
RetrySleep ==
    /\ retry.pc = "sleep"
    /\ retry' = [retry EXCEPT !.pc = "loop", !.waits = Append(@, retry.current_delay),
                              !.current_delay = @ * retry.backoff, !.attempt = @ + 1]
    /\ UNCHANGED <<now, ticks, utc_offset, dropped, stats, got, rates, current_currency, cache,
                   price_cache, in_progress, runs, nruns, ui, poolVars>>

\* the loop has ended: raise last_exception
RetryRaise ==
    /\ retry.pc = "loop"
    /\ retry.attempt >= retry.max_attempts
    /\ retry' = [retry EXCEPT !.pc = "raised", !.raised = retry.last_exception]
    /\ UNCHANGED <<now, ticks, utc_offset, dropped, stats, got, rates, current_currency, cache,
                   price_cache, in_progress, runs, nruns, ui, poolVars>>

NextRetry == RetryEnter \/ RetryAttempt \/ RetrySleep \/ RetryRaise

SpecRetry == Init /\ [][NextRetry]_vars

\* max_age_minutes passed to get_cached_price
MaxAges == {2, MAX_CACHE_AGE_MINUTES + 1}

\* self.db.update_price_cache_batch([{ticker, price, currency}])
DbUpsert ==
    /\ \E t \in Tickers, p \in Prices :
          price_cache' = UpdatePriceCacheBatch(price_cache,
                            {[ticker |-> t, price |-> p, currency |-> current_currency]}, now)
    /\ UNCHANGED <<now, ticks, utc_offset, dropped, stats, retry, got, rates, current_currency, cache,
                   in_progress, runs, nruns, ui, poolVars>>

\* self.db.get_cached_price(ticker, max_age_minutes)
DbGet ==
    /\ \E t \in Tickers, m \in MaxAges :
          got' = [op |-> "db_get", ticker |-> t, at |-> now, max_age |-> m,
                  result |-> GetCachedPrice(price_cache, t, m, now)]
    /\ UNCHANGED <<now, ticks, utc_offset, dropped, stats, retry, rates, current_currency, cache, price_cache,
                   in_progress, runs, nruns, ui, poolVars>>

NextDurable == ClockMinute \/ DbUpsert \/ DbGet

SpecDurable == Init /\ [][NextDurable]_vars

\* ------------------------------------------------- upserts on their own
\* INSERT without OR REPLACE on a table without a key: the row is added
UpsertInsert(db, u, clock) ==
    [db EXCEPT ![u.ticker] =
        @ \cup {[last_price |-> u.price, last_update |-> clock, currency |-> u.currency]}]

\* update_price_cache: INSERT OR REPLACE of one row, ticker being the PRIMARY KEY
Upsert(db, u, clock) ==
    [db EXCEPT ![u.ticker] =
        {[last_price |-> u.price, last_update |-> clock, currency |-> u.currency]}]

\* update_price_cache_batch: executemany applies the rows of price_data in order
RECURSIVE UpsertMany(_, _, _)
UpsertMany(db, price_data, clock) ==
    IF price_data = <<>> THEN db
    ELSE UpsertMany(Upsert(db, Head(price_data), clock), Tail(price_data), clock)

\* the dicts a caller can pass
PriceData ==
    {[ticker |-> t, price |-> p, currency |-> c] :
        t \in Tickers, p \in Prices, c \in VALID_CURRENCIES}

\* price_data of one call: one or two dicts, the same ticker twice included
PriceDataLists == {<<u>> : u \in PriceData} \cup {<<u, v>> : u, v \in PriceData}

\* self.db.update_price_cache_batch(price_data) / update_price_cache(...)
DbUpsertMany ==
    /\ \E price_data \in PriceDataLists :
          /\ price_cache' = UpsertMany(price_cache, price_data, now)
          /\ got' = [op |-> "db_upsert", ticker |-> price_data[1].ticker, at |-> 0,
                     max_age |-> 0, result |-> price_data]
    /\ UNCHANGED <<now, ticks, utc_offset, dropped, stats, retry, rates, current_currency, cache,
                   in_progress, runs, nruns, ui, poolVars>>

NextUpsert == ClockMinute \/ DbUpsertMany

SpecUpsert == Init /\ [][NextUpsert]_vars

\* ------------------------------------------------- the eviction sweep
\* minutes of the SQLite modifier '-1 days'
DAY_MINUTES == 1440

\* max_age_days passed to clear_old_cache
MaxAgeDays == {0, 1}

\* SELECT ticker FROM positions / FROM watchlist: every currency
Referenced == UNION {Positions(c) \cup Watchlist(c) : c \in VALID_CURRENCIES}

\* the DELETE without the two NOT IN conditions: every old row goes
SweepAnyOld(db, refs, days, clock) ==
    [t \in Tickers |-> {r \in db[t] : ~(r.last_update < clock - days * DAY_MINUTES)}]

\* DELETE FROM price_cache WHERE ticker NOT IN positions AND ticker NOT IN
\* watchlist AND datetime(last_update) < datetime('now', '-<days> days')
Sweep(db, refs, days, clock) ==
    [t \in Tickers |->
        {r \in db[t] : ~(t \notin refs /\ r.last_update < clock - days * DAY_MINUTES)}]

\* self.db.clear_old_cache(max_age_days)
ClearOldCache ==
    /\ \E days \in MaxAgeDays :
          /\ price_cache' = Sweep(price_cache, Referenced, days, now)
          /\ got' = [op |-> "sweep", ticker |-> "A", at |-> 0, max_age |-> days,
                     result |-> {t \in Tickers : price_cache'[t] # price_cache[t]}]
    /\ UNCHANGED <<now, ticks, utc_offset, dropped, stats, retry, rates, current_currency, cache,
                   in_progress, runs, nruns, ui, poolVars>>

\* self.db.delete_position(position_id)
DeletePosition ==
    /\ \E c \in VALID_CURRENCIES : \E t \in Positions(c) :
          dropped' = [dropped EXCEPT !.positions[c] = @ \cup {t}]
    /\ UNCHANGED <<now, ticks, utc_offset, stats, retry, got, rates, current_currency, cache, price_cache,
                   in_progress, runs, nruns, ui, poolVars>>

\* self.db.delete_from_watchlist(watchlist_id)
DeleteFromWatchlist ==
    /\ \E c \in VALID_CURRENCIES : \E t \in Watchlist(c) :
          dropped' = [dropped EXCEPT !.watchlist[c] = @ \cup {t}]
    /\ UNCHANGED <<now, ticks, utc_offset, stats, retry, got, rates, current_currency, cache, price_cache,
                   in_progress, runs, nruns, ui, poolVars>>

NextSweep == ClockMinute \/ DbUpsert \/ DeletePosition \/ DeleteFromWatchlist \/ ClearOldCache

SpecSweep == Init /\ [][NextSweep]_vars

\* the program with the currency selector in use, after earlier refresh
\* threads have ended
NextCurrency == Next \/ OnCurrencyChanged

SpecCurrency == InitLater /\ [][NextCurrency]_vars

\* ------------------------------------------------------- ConnectionPool
\* pool.get returning the oldest idle connection without taking it off the Queue
AcquirePeek(c) ==
    /\ callers[c].pc = "idle"
    /\ pool # <<>>
    /\ callers' = [callers EXCEPT ![c] = [NoConn EXCEPT !.pc = "using", !.conn = Head(pool), !.via = "pool"]]
    /\ UNCHANGED <<pool, created, closed, shut, refreshVars>>

\* get_connection, try: self.pool.get(timeout=5) returns the oldest idle connection
Acquire(c) ==
    /\ callers[c].pc = "idle"
    /\ pool # <<>>
    /\ callers' = [callers EXCEPT ![c] = [NoConn EXCEPT !.pc = "using", !.conn = Head(pool), !.via = "pool"]]
    /\ pool' = Tail(pool)
    /\ UNCHANGED <<created, closed, shut, refreshVars>>

\* get_connection, except Empty: the pool stayed empty for 5 s, a temporary
\* connection is created and yielded
AcquireTimeout(c) ==
    /\ callers[c].pc = "idle"
    /\ pool = <<>>
    /\ created < pool_size + MaxFallbacks
    /\ created' = created + 1
    /\ callers' = [callers EXCEPT ![c] = [NoConn EXCEPT !.pc = "using", !.conn = created + 1, !.via = "fallback"]]
    /\ UNCHANGED <<pool, closed, shut, refreshVars>>

\* get_connection, finally, without conn.close(): a connection the full Queue
\* refuses is dropped open
ReleaseLeak(c) ==
    /\ callers[c].pc = "using"
    /\ IF Len(pool) < pool_size
       THEN pool' = Append(pool, callers[c].conn) /\ closed' = closed
       ELSE pool' = pool /\ closed' = closed
    /\ callers' = [callers EXCEPT ![c] = NoConn]
    /\ UNCHANGED <<created, shut, refreshVars>>

\* get_connection, finally: self.pool.put_nowait(conn), and conn.close() when
\* the Queue is full; reached when the with-block returns, leaves by return or
\* continue, or raises
Release(c) ==
    /\ callers[c].pc = "using"
    /\ IF Len(pool) < pool_size
       THEN pool' = Append(pool, callers[c].conn) /\ closed' = closed
       ELSE pool' = pool /\ closed' = closed \cup {callers[c].conn}
    /\ callers' = [callers EXCEPT ![c] = NoConn]
    /\ UNCHANGED <<created, shut, refreshVars>>

\* a method called inside a with-block enters its own with-block
\* (_init_db -> create_performance_indexes, verify_password -> _handle_failed_login):
\* self.pool.get(timeout=5) returns the oldest idle connection
AcquireNested(c) ==
    /\ callers[c].pc = "using"
    /\ pool # <<>>
    /\ callers' = [callers EXCEPT ![c] = [@ EXCEPT !.pc = "nested", !.inner = Head(pool), !.inner_via = "pool"]]
    /\ pool' = Tail(pool)
    /\ UNCHANGED <<created, closed, shut, refreshVars>>

\* the same with the pool empty for 5 s: except Empty, a temporary connection
AcquireNestedTimeout(c) ==
    /\ callers[c].pc = "using"
    /\ pool = <<>>
    /\ created < pool_size + MaxFallbacks
    /\ created' = created + 1
    /\ callers' = [callers EXCEPT ![c] = [@ EXCEPT !.pc = "nested", !.inner = created + 1, !.inner_via = "fallback"]]
    /\ UNCHANGED <<pool, closed, shut, refreshVars>>

\* finally of the inner with-block
ReleaseNested(c) ==
    /\ callers[c].pc = "nested"
    /\ IF Len(pool) < pool_size
       THEN pool' = Append(pool, callers[c].inner) /\ closed' = closed
       ELSE pool' = pool /\ closed' = closed \cup {callers[c].inner}
    /\ callers' = [callers EXCEPT ![c] = [@ EXCEPT !.pc = "using", !.inner = 0, !.inner_via = "none"]]
    /\ UNCHANGED <<created, shut, refreshVars>>

PoolNext ==
    \/ \E c \in Callers : Acquire(c)
    \/ \E c \in Callers : AcquireTimeout(c)
    \/ \E c \in Callers : Release(c)
    \/ \E c \in Callers : AcquireNested(c)
    \/ \E c \in Callers : AcquireNestedTimeout(c)
    \/ \E c \in Callers : ReleaseNested(c)

PoolSpec == Init /\ [][PoolNext]_vars

\* close_all, one turn of the while loop: conn = self.pool.get_nowait(); conn.close()
CloseAllStep ==
    /\ shut \in {"open", "closing"}
    /\ pool # <<>>
    /\ pool' = Tail(pool)
    /\ closed' = closed \cup {Head(pool)}
    /\ shut' = "closing"
    /\ UNCHANGED <<created, callers, refreshVars>>

\* close_all, self.pool.empty(): the loop ends and close_all returns
CloseAllEnd ==
    /\ shut \in {"open", "closing"}
    /\ pool = <<>>
    /\ shut' = "closed"
    /\ UNCHANGED <<pool, created, closed, callers, refreshVars>>

\* Database.close() called while other threads use the database
PoolCloseNext == PoolNext \/ CloseAllStep \/ CloseAllEnd

PoolCloseSpec == Init /\ [][PoolCloseNext]_vars

\* ======================================================== the properties
\* a refresh thread between its start and the first reset of its flag
Running(r) == runs[r].pc \in {"started", "download", "fetched", "finally"}

RunningRuns(s) == {r \in Runs : Running(r) /\ runs[r].scope = s}

\* no refresh thread alive and the interactive thread not inside refresh_prices
Quiescent == ui.pc = "idle" /\ \A r \in Runs : runs[r].pc \in {"unborn", "done"}

\* the calls of the batch fetcher that cover the symbols of scope s and have
\* not returned: those of the scope's refresh threads, and the one of
\* refresh_prices, which fetches the symbols of every scope
FetcherCalls(s) ==
    {r \in Runs : runs[r].scope = s /\ runs[r].pc = "download"}
        \cup (IF ui.pc = "download" THEN {0} ELSE {})

\* C1: for each scope at most one refresh run is Running (between the start of
\* its thread and the reset of its in-progress flag) in every reachable state.
C1_SingleFlight == \A s \in Scopes : Cardinality(RunningRuns(s)) <= 1

\* a refresh request: a display load or a forced refresh (both halves of
\* refresh_prices), on the interactive thread
RefreshRequest == LoadData \/ RefreshPricesBegin \/ RefreshPricesEnd

\* C2: while a run of a scope is Running, a further refresh request for that
\* scope, forced or not, is a no-op: it starts no call of the batch fetcher
\* covering the scope and creates no further refresh thread for it.
C2_RequestWhileRunningIsNoOp ==
    [][\A s \in Scopes :
          (RunningRuns(s) # {} /\ RefreshRequest) =>
              /\ FetcherCalls(s)' \subseteq FetcherCalls(s)
              /\ \A r \in Runs :
                    (runs[r].pc = "unborn" /\ runs'[r].pc # "unborn") => runs'[r].scope # s]_vars

\* C3: a scope is never stuck Running: whenever the in-progress flag of a scope
\* is set, a refresh thread of that scope is alive that will reset it (no other
\* code resets the flag), also when the thread could not be started.
C3_NeverStuckRunning ==
    \A s \in Scopes :
        in_progress[s] =>
            \E r \in Runs : runs[r].scope = s /\ runs[r].pc \notin {"unborn", "done"}

\* the connections a caller holds that it obtained from the pool
PooledOutstanding ==
    {callers[c].conn : c \in {x \in Callers : callers[x].pc # "idle" /\ callers[x].via = "pool"}}
        \cup {callers[c].inner : c \in {x \in Callers : callers[x].pc = "nested" /\ callers[x].inner_via = "pool"}}

\* C4: pool bound: the number of connections that were obtained from the pool
\* and are simultaneously outstanding never exceeds pool_size.
C4_PoolBound == Cardinality(PooledOutstanding) <= pool_size

\* C5: partial failure isolation.  For every response to a pending grouped
\* request in which some tickers succeed and others fail, each failing ticker is
\* marked failed and each successful one keeps its fetched price; and the write
\* step of a refresh run sets exactly the rows of the tickers whose fetched
\* price is positive to that price with last_update = now, every other row
\* keeping its price and last_update.
C5_ParseIsolated ==
    \A r \in Runs :
        runs[r].pc = "download" =>
            \A resp \in [runs[r].uncached -> Outcomes] :
                ((\E t \in runs[r].uncached : resp[t].kind = "ok")
                    /\ (\E t \in runs[r].uncached : resp[t].kind # "ok"))
                => \A t \in runs[r].uncached :
                      ParseResponse(runs[r].uncached, resp)[t] =
                          IF resp[t].kind = "ok" THEN resp[t].price ELSE FAILED

C5_WriteIsolated ==
    \A r \in Runs :
        (runs[r].pc = "fetched" /\ runs'[r].pc = "finally") =>
            \A t \in Tickers :
                IF /\ runs'[r].notified > runs[r].notified
                   /\ t \in runs[r].to_refresh
                   /\ runs[r].fresh[t] \in Prices
                THEN price_cache'[t] =
                        {[last_price |-> runs[r].fresh[t], last_update |-> now,
                          currency |-> current_currency]}
                ELSE price_cache'[t] = price_cache[t]

C5_PartialFailureIsolation == [](C5_ParseIsolated) /\ [][C5_WriteIsolated]_vars

\* C5 witness: a positions run has written and notified; the row of A holds the
\* fetched price, B, which was refreshed by the same run, still has no row
C5_Witness ==
    \E r \in Runs :
        /\ runs[r].pc = "finally" /\ runs[r].notified = 1 /\ runs[r].scope = "positions"
        /\ price_cache["A"] = {[last_price |-> 2, last_update |-> now, currency |-> "USD"]}
        /\ price_cache["B"] = {}
        /\ cache["A"] # {} /\ cache["B"] = {}

\* C6: cache-then-store: after a successful fetch of S with price P the
\* PriceCache returns P while the entry is valid, and once the entry has expired
\* (and no refresh is still at work) the price_cache row of S holds P.
C6_CacheThenStore ==
    \A t \in Tickers : \A e \in cache[t] :
        e.price \in Prices =>
            IF now - e.timestamp < TTL_MINUTES
            THEN PriceCacheGet(cache, t, now) = {e.price}
            ELSE Quiescent => \E row \in price_cache[t] : row.last_price = e.price

\* C7: a grouped request that failed in transport is treated as failed only
\* after 3 attempts.
C7_RetriedThreeTimes ==
    \A r \in Runs :
        (runs[r].pc = "fetched" /\ runs[r].raised) => runs[r].attempts = MAX_ATTEMPTS

\* C8: the interactive thread is never inside the blocking grouped request.
C8_NoDownloadOnUiThread == ui.pc # "download"

\* C9: a run schedules its notification only after it has marked its scope
\* Idle: a run that has scheduled the notification is no longer Running.
C9_NotifyAfterIdle ==
    \A r \in Runs : runs[r].notified > 0 => ~Running(r)

\* C10: a forced refresh starts runs that refresh every symbol of their scope,
\* whatever the age of its price_cache row.
C10_ForceRefreshesEverySymbol ==
    [][(ui.pc = "download" /\ ui'.pc = "idle") =>
          \A r \in Runs :
              (runs[r].pc = "unborn" /\ runs'[r].pc = "started") =>
                  TickersToRefresh(runs'[r].items) = DOMAIN runs'[r].items]_vars

\* the symbols of a scope in the view of currency cur
ScopeTickers(s, cur) == IF s = "positions" THEN Positions(cur) ELSE Watchlist(cur)

\* a step that creates and starts a refresh thread of scope s
StartsRun(s) ==
    \E r \in Runs : runs[r].pc = "unborn" /\ runs'[r].pc = "started" /\ runs'[r].scope = s

\* C11: staleness policy: a non-forced display load starts a refresh run of an
\* Idle scope if and only if some symbol of the scope has no price_cache row or
\* a row more than 60 minutes old (a row exactly 60 minutes old is fresh), and
\* it makes no provider request itself.
C11_StalenessPolicy ==
    [][LoadData =>
          /\ ui'.pc # "download"
          /\ \A s \in Scopes :
                ~in_progress[s] =>
                    (StartsRun(s) <=>
                        \E t \in ScopeTickers(s, current_currency) :
                            IsStale(CacheAge(price_cache, t, now)))]_vars

\* the connections waiting in the Queue
PoolElems == {pool[i] : i \in 1..Len(pool)}

\* the connections caller c holds
Held(c) ==
    (IF callers[c].pc # "idle" THEN {callers[c].conn} ELSE {})
        \cup (IF callers[c].pc = "nested" THEN {callers[c].inner} ELSE {})

\* C12: a fallback connection (created after a timeout, numbered above
\* pool_size) bypasses the pool on release: it is never in the Queue and never
\* handed out by pool.get().
C12_FallbackBypassesPool == \A k \in PoolElems \cup PooledOutstanding : k <= pool_size

\* C13: guaranteed release, no double lease.  When a with-block ends, on
\* whatever exit path, its connection is in the Queue or closed and no longer
\* held by the caller; and in every state no connection is held by two callers
\* or twice by one, queued twice, or held while queued or closed.
C13_Released ==
    \A c \in Callers :
        /\ (callers[c].pc = "using" /\ callers'[c].pc = "idle") =>
              /\ callers[c].conn \in PoolElems' \cup closed'
              /\ \A d \in Callers : callers[c].conn \notin Held(d)'
        /\ (callers[c].pc = "nested" /\ callers'[c].pc = "using") =>
              /\ callers[c].inner \in PoolElems' \cup closed'
              /\ \A d \in Callers : callers[c].inner \notin Held(d)'

C13_NoDoubleLease ==
    /\ \A c, d \in Callers : c # d => Held(c) \cap Held(d) = {}
    /\ \A c \in Callers : callers[c].pc = "nested" => callers[c].conn # callers[c].inner
    /\ Cardinality(PoolElems) = Len(pool)
    /\ \A c \in Callers : Held(c) \cap (PoolElems \cup closed) = {}
    /\ PoolElems \cap closed = {}

C13_GuaranteedRelease == [](C13_NoDoubleLease) /\ [][C13_Released]_vars

\* C13 witness: a with-block has ended with the Queue full, its connection was
\* closed; the other connections are back in the Queue and nobody holds one
C13_Witness ==
    /\ closed # {}
    /\ Len(pool) = pool_size
    /\ \A c \in Callers : callers[c].pc = "idle"

\* C14: no caller ever holds two connections at once.
C14_OneHandlePerCaller == \A c \in Callers : Cardinality(Held(c)) <= 1

\* the rows load_*_hybrid hands to the guard, for scope s in the view of cur
ItemsOf(s, cur) ==
    IF s = "positions" THEN PositionsWithCache(price_cache, cur, now)
    ELSE WatchlistWithCache(price_cache, cur, now, utc_offset)

\* C15: runs of different scopes are independent: a display load of a view
\* (after a switch of the currency or not) whose rows need a refresh starts a
\* run for each of its lists unless a run of that list for that same view is
\* Running; a run of another currency's view does not make it drop the request.
C15_ScopesIndependent ==
    [][\A s \in Scopes :
          ((LoadData \/ OnCurrencyChanged)
              /\ DOMAIN ItemsOf(s, current_currency') # {}
              /\ NeedsRefresh(ItemsOf(s, current_currency'), FALSE)
              /\ ~\E r \in RunningRuns(s) : runs[r].currency = current_currency')
          => StartsRun(s)]_vars

\* C16: no background thread mutates UI-owned state directly: the rate labels
\* are never written by the fetch_rates_bg thread.
C16_NoUiMutationOffThread == rates.label_by # "background"

\* C17: TTL validity.  PriceCache.get returns the stored price exactly when an
\* entry exists and is younger than ttl: at age ttl - 1 it is returned, at age
\* ttl and later it is absent; and a lookup that has become a miss stays a miss
\* until the next set for that symbol.
C17_GetValid ==
    TtlGet =>
        LET t == got'.ticker
        IN /\ cache[t] = {} => got'.result = {}
           /\ \A e \in cache[t] :
                 /\ now - e.timestamp <= TTL_MINUTES - 1 => got'.result = {e.price}
                 /\ now - e.timestamp >= TTL_MINUTES => got'.result = {}

C17_StaysMiss ==
    \A t \in Tickers :
        (cache[t] # {} /\ PriceCacheGet(cache, t, now) = {} /\ cache'[t] = cache[t])
            => PriceCacheGet(cache', t, now') = {}

C17_TtlValidity == [][C17_GetValid /\ C17_StaysMiss]_vars

\* C17 witness: a lookup made at age ttl exactly has returned nothing
C17_Witness ==
    /\ got.op = "cache_get" /\ got.at = now /\ got.result = {}
    /\ \E e \in cache[got.ticker] : now - e.timestamp = TTL_MINUTES

\* C18: get_cached_price(symbol, max_age) returns the row exactly when it exists
\* and now - last_update <= max_age: a row aged max_age exactly is returned.
C18_DurableGetInclusive ==
    [][DbGet =>
          got'.result =
              {r \in price_cache[got'.ticker] : now - r.last_update <= got'.max_age}]_vars

\* the tickers with a valid PriceCache entry in cache c at the current time
Warm(c, tickers) == {t \in tickers : \E e \in c[t] : now - e.timestamp < TTL_MINUTES}

\* C19: the batch fetcher sends to the provider exactly the requested symbols
\* without a valid PriceCache entry; a warm symbol is answered with its cached
\* price and is not in the request, and when every symbol is warm there is no
\* request.  (refresh_prices clears the PriceCache first, then the same holds.)
C19_OnlyUncachedSent ==
    [][/\ \A r \in Runs :
             (runs[r].pc = "started" /\ runs'[r].pc \in {"download", "fetched"}) =>
                 LET req == runs'[r].to_refresh
                     warm == Warm(cache, req)
                 IN /\ runs'[r].uncached = req \ warm
                    /\ \A t \in warm : runs'[r].fresh[t] \in {e.price : e \in cache[t]}
                    /\ (runs'[r].pc = "download") <=> (req \ warm # {})
       /\ (ui.pc = "idle" /\ ui'.pc = "download") =>
             ui'.uncached = AllTickers \ Warm(cache', AllTickers)]_vars

\* C19 witness: a run is waiting for the provider's answer to a request for B
\* only, A having been answered from the PriceCache
C19_Witness ==
    \E r \in Runs :
        /\ runs[r].pc = "download"
        /\ runs[r].to_refresh = {"A", "B"}
        /\ runs[r].uncached = {"B"}
        /\ runs[r].fresh = [t \in {"A"} |-> 2]

\* C20: when the grouped provider call raises, every symbol of that call is
\* reported failed, the symbols answered from the PriceCache keep their prices,
\* the run goes on (no exception reaches _refresh_*_background), and neither the
\* failure nor the following write changes the PriceCache or the price_cache
\* rows of the failed symbols.
C20_WholeCallFailure ==
    [][\A r \in Runs :
          /\ (runs[r].pc = "download" /\ runs'[r].raised) =>
                /\ runs'[r].pc = "fetched"
                /\ \A t \in runs[r].uncached : runs'[r].fresh[t] = FAILED
                /\ \A t \in runs[r].to_refresh \ runs[r].uncached :
                      runs'[r].fresh[t] = runs[r].fresh[t]
                /\ cache' = cache
                /\ price_cache' = price_cache
          /\ (runs[r].pc = "fetched" /\ runs[r].raised /\ runs'[r].pc = "finally") =>
                /\ cache' = cache
                /\ \A t \in runs[r].uncached : price_cache'[t] = price_cache[t]]_vars

\* C20 witness: the grouped request for B has raised; the run holds the cached
\* price of A and B marked failed, and is about to write
C20_Witness ==
    \E r \in Runs :
        /\ runs[r].pc = "fetched" /\ runs[r].raised
        /\ runs[r].to_refresh = {"A", "B"}
        /\ runs[r].uncached = {"B"}
        /\ runs[r].fresh = [t \in {"A", "B"} |-> IF t = "A" THEN 2 ELSE FAILED]

\* what a reader of price_cache sees apart from last_update
Observable(db) ==
    [t \in Tickers |-> {[last_price |-> r.last_price, currency |-> r.currency] : r \in db[t]}]

\* C21: upsert is an idempotent overwrite keyed by symbol.  price_cache holds at
\* most one row per symbol; after a call the row of every symbol in price_data
\* carries the values of its last dict and last_update = now, the other rows
\* are untouched; and applying a price_data twice (at once or a minute later)
\* gives the same observable state as applying it once.
C21_OneRow == \A t \in Tickers : Cardinality(price_cache[t]) <= 1

C21_Idempotent ==
    \A price_data \in PriceDataLists :
        LET once == UpsertMany(price_cache, price_data, now)
        IN /\ UpsertMany(once, price_data, now) = once
           /\ Observable(UpsertMany(once, price_data, now + 1)) = Observable(once)

C21_LastWrite ==
    DbUpsertMany =>
        LET price_data == got'.result
        IN \A t \in Tickers :
              LET idx == {i \in 1..Len(price_data) : price_data[i].ticker = t}
              IN IF idx = {} THEN price_cache'[t] = price_cache[t]
                 ELSE LET last == price_data[CHOOSE i \in idx : \A j \in idx : j <= i]
                      IN price_cache'[t] =
                            {[last_price |-> last.price, last_update |-> now,
                              currency |-> last.currency]}

C21_UpsertIdempotent == [](C21_OneRow /\ C21_Idempotent) /\ [][C21_LastWrite]_vars

\* C21 witness: a call with two dicts for A has replaced the row of an earlier
\* minute by the values of the second dict
C21_Witness ==
    /\ got.op = "db_upsert"
    /\ Len(got.result) = 2 /\ got.result[1].ticker = "A" /\ got.result[2].ticker = "A"
    /\ got.result[1].currency = "USD" /\ got.result[2].currency = "PLN"
    /\ now > 0
    /\ price_cache["A"] = {[last_price |-> 2, last_update |-> now, currency |-> "PLN"]}

\* C22: a price_cache row disappears only in the eviction sweep, and the sweep
\* removes exactly the rows whose ticker is in neither positions nor watchlist
\* and whose last_update is more than max_age_days before now; a row that is
\* referenced or not older than that is never deleted.
C22_OnlySweepRemoves ==
    \A t \in Tickers :
        (price_cache[t] # {} /\ price_cache'[t] = {}) =>
            /\ ClearOldCache
            /\ t \notin Referenced
            /\ \A r \in price_cache[t] : now - r.last_update > got'.max_age * DAY_MINUTES

C22_SweepRemovesAll ==
    ClearOldCache =>
        \A t \in Tickers :
            (t \notin Referenced
                /\ \E r \in price_cache[t] : now - r.last_update > got'.max_age * DAY_MINUTES)
            => price_cache'[t] = {}

C22_EvictionSweep == [][C22_OnlySweepRemoves /\ C22_SweepRemovesAll]_vars

\* C22 witness: a sweep has removed the old row of A, no longer referenced,
\* and kept the old row of B, which still is
C22_Witness ==
    /\ got.op = "sweep" /\ got.result = {"A"}
    /\ price_cache["A"] = {}
    /\ "B" \in Referenced
    /\ \E r \in price_cache["B"] : now - r.last_update > got.max_age * DAY_MINUTES

\* C23: once close_all has returned, no open connection is in the pool, also
\* after connections that were in use during close_all have been released, and
\* no thread inside a with-block holds a closed connection.
C23_Shutdown ==
    shut = "closed" =>
        /\ PoolElems \subseteq closed
        /\ \A c \in Callers : callers[c].pc # "idle" => callers[c].conn \notin closed

\* C24: under any interleaving of get, set and clear, every get increments
\* exactly one of hits and misses (hits exactly when it returns a price), so
\* hits + misses is the number of get calls completed since the last clear, and
\* clear empties the map and resets both counters.
C24_CountsGets == stats.hits + stats.misses = stats.gets

C24_GetCountsOnce ==
    \A th \in CacheThreads :
        CacheGetStore(th) =>
            IF stats.thread[th].ret # {}
            THEN stats'.hits = stats.hits + 1 /\ stats'.misses = stats.misses
            ELSE stats'.misses = stats.misses + 1 /\ stats'.hits = stats.hits

C24_ClearResets ==
    \A th \in CacheThreads :
        CacheClear(th) =>
            /\ \A t \in Tickers : cache'[t] = {}
            /\ stats'.hits = 0 /\ stats'.misses = 0

C24_ThreadSafeAccounting ==
    [](C24_CountsGets) /\ [][C24_GetCountsOnce /\ C24_ClearResets]_vars

\* C24 witness: one hit was counted, a second get holds the lock and is about
\* to count a miss, and a thread that called set or clear waits for the lock
C24_Witness ==
    /\ stats.hits = 1 /\ stats.misses = 0 /\ stats.gets = 1
    /\ \E a, b \in CacheThreads :
          /\ stats.thread[a].pc = "store" /\ stats.thread[a].ret = {}
          /\ stats.thread[b].pc \in {"clear", "set"}

\* the symbols of the current view are in neither cache
AllAbsent ==
    \A t \in Positions(current_currency) : price_cache[t] = {} /\ cache[t] = {}

\* C25: with the symbols of the view in no cache, the display read of the
\* initial load returns every symbol without a price and a refresh thread is
\* started for them while the interactive thread stays idle and no cache is
\* touched; when that thread has fetched a price for every symbol and written
\* them, a display read made in the minute of the write returns for each symbol
\* the fetched price with cache_age_minutes 0.
C25_ReadStartsRun ==
    (InitialLoad /\ AllAbsent) =>
        /\ \A t \in Positions(current_currency) :
              DisplayRead(price_cache, current_currency, now)[t] = {}
        /\ \E r \in Runs :
              /\ runs[r].pc = "unborn" /\ runs'[r].pc = "started"
              /\ runs'[r].scope = "positions"
              /\ DOMAIN runs'[r].items = Positions(current_currency)
        /\ ui'.pc = "idle"
        /\ cache' = cache /\ price_cache' = price_cache

C25_ReadAfterRun ==
    \A r \in Runs :
        (/\ runs[r].scope = "positions"
         /\ runs[r].pc = "fetched" /\ runs'[r].pc = "finally"
         /\ runs'[r].notified = runs[r].notified + 1
         /\ \A t \in runs[r].to_refresh : runs[r].fresh[t] > 0)
        => \A t \in runs[r].to_refresh :
              DisplayRead(price_cache', runs[r].currency, now')[t]
                  = {[cached_price |-> runs[r].fresh[t], cache_age_minutes |-> 0]}

C26_ProviderKept == ~(rates.origin = "provider" /\ rates'.origin = "default")

C26_DefaultNotFresh == rates.origin = "default" => RatesExpired

C26_DefaultsOnlyWithoutProvider == [](C26_DefaultNotFresh) /\ [][C26_ProviderKept]_vars

RECURSIVE Pow(_, _)
\* b ** k
Pow(b, k) == IF k = 0 THEN 1 ELSE b * Pow(b, k - 1)

\* the calls made so far that raised an exception of `exceptions`
Failed == {k \in 1..Len(retry.calls) : retry.calls[k] = "caught"}

\* C27: the wrapped function is called at most max_attempts times; the first
\* call that returns ends the retry, with no further call; the wait after the
\* k-th failed attempt (k < max_attempts) is delay * backoff^(k-1), so n
\* failures give exactly n-1 waits and none after the last; after n failures
\* the last exception is raised; an exception outside `exceptions` propagates
\* at its first occurrence without retry.
C27_Calls ==
    /\ Len(retry.calls) <= retry.max_attempts
    /\ \A k \in 1..Len(retry.calls) : retry.calls[k] # "caught" => k = Len(retry.calls)

C27_Waits ==
    /\ \A k \in 1..Len(retry.waits) :
          /\ k < retry.max_attempts
          /\ k \in Failed
          /\ retry.waits[k] = retry.delay * Pow(retry.backoff, k - 1)
    /\ retry.pc \in {"returned", "propagated"} => Len(retry.waits) = Cardinality(Failed)
    /\ retry.pc = "raised" => Len(retry.waits) = retry.max_attempts - 1

C27_Ends ==
    /\ retry.pc = "returned" => retry.calls[Len(retry.calls)] = "return" /\ retry.raised = 0
    /\ retry.pc = "raised" =>
          /\ Cardinality(Failed) = retry.max_attempts
          /\ retry.raised = retry.max_attempts
    /\ retry.pc = "propagated" =>
          /\ retry.calls[Len(retry.calls)] = "other"
          /\ retry.raised = Len(retry.calls)

C27_Final == retry.pc \in {"returned", "raised", "propagated"} => retry' = retry

C27_RetryOnFailure == [](C27_Calls /\ C27_Waits /\ C27_Ends) /\ [][C27_Final]_vars

\* C27 witness: three attempts with delay 2 and backoff 3 have all failed; the
\* wrapper waited 2 and 6 and raised the third exception
C27_Witness ==
    /\ retry.pc = "raised" /\ retry.max_attempts = 3
    /\ retry.calls = <<"caught", "caught", "caught">>
    /\ retry.waits = <<2, 6>>
    /\ retry.raised = 3

\* C28: the currency recorded in price_cache for the symbols a refresh thread
\* writes is the currency of the view the thread was started for, also when
\* the user switches the view while the thread runs.
C28_CurrencyOfScope ==
    [][\A r \in Runs :
          (runs[r].pc = "fetched" /\ runs'[r].pc = "finally") =>
              \A t \in Tickers :
                  price_cache'[t] # price_cache[t] =>
                      \A row \in price_cache'[t] : row.currency = runs[r].currency]_vars

\* C29: every refresh thread that was started ends with exactly one consumer
\* notification scheduled, whether it wrote prices, had nothing to fetch, or
\* failed in the write to price_cache; no thread schedules more than one.
C29_OneNotification ==
    /\ [](\A r \in Runs : runs[r].notified <= 1)
    /\ [][\A r \in Runs :
            (runs[r].pc \in {"finally", "returning"} /\ runs'[r].pc = "done")
                => runs[r].notified = 1]_vars

\* C30: pool conservation: the Queue never holds more than pool_size
\* connections and never a closed one, and whenever no thread holds a
\* connection (and close_all has not been called) it holds exactly pool_size
\* open connections, after any sequence of acquires, timeout fallbacks and
\* releases.
C30_PoolConservation ==
    /\ Len(pool) <= pool_size
    /\ PoolElems \cap closed = {}
    /\ ((\A c \in Callers : callers[c].pc = "idle") /\ shut = "open") =>
          /\ Len(pool) = pool_size
          /\ Cardinality(PoolElems) = pool_size

\* C30 witness: both pooled connections were out, a fallback connection was
\* created and queued, a pooled one was closed on release, and with every
\* thread idle again the Queue holds pool_size open connections
C30_Witness ==
    /\ \A c \in Callers : callers[c].pc = "idle"
    /\ created > pool_size
    /\ closed # {}
    /\ \E i \in PoolElems : i > pool_size
    /\ Len(pool) = pool_size

====
